---- MODULE Spec2Model ----
(***************************************************************************)
(* Model of the Bunker plugin (src/main.ts): the mount / unmount lifecycle *)
(* of one VeraCrypt volume driven through child_process.exec.              *)
(*                                                                         *)
(* Text (paths, command lines, stdout, stderr, notices) is a sequence of   *)
(* symbols: a path is a sequence of one-character strings, a fixed piece   *)
(* of text of the program or of the tool is one symbol.  String.includes   *)
(* and String.startsWith are computed on these sequences.                  *)
(*                                                                         *)
(* JavaScript runs every callback to completion: one action is one         *)
(* callback together with the promise continuations it resumes.            *)
(***************************************************************************)
EXTENDS Naturals, Sequences, FiniteSets

VARIABLES
    vaultPath,      \* what getVaultPath() returns (fixed for a run)
    settings,       \* this.settings
    isMounted,      \* this.isMounted
    ribbonIconEl,   \* this.ribbonIconEl: "null", or the icon it shows
    loadPc,         \* position of onload
    calls,          \* the toggleMount calls made so far, in click order
    last,           \* the completion event exec delivered last
    out,            \* what the callback of that event did to the host, in
                    \* order: notices shown, icons set, commands executed
    env             \* the machine outside the plugin: whether the volume is
                    \* mounted, and what the commands that have run so far
                    \* and whose callback is still to come have produced

vars == <<vaultPath, settings, isMounted, ribbonIconEl, loadPc, calls, last,
          out, env>>

----------------------------------------------------------------------------
(* Bounds *)

\* number of toggleMount calls (ribbon clicks) in a run
MaxCalls == 2

----------------------------------------------------------------------------
(* Text *)

\* String.prototype.includes
Includes(s, t) ==
    \E i \in 0..Len(s) : i + Len(t) <= Len(s) /\ SubSeq(s, i + 1, i + Len(t)) = t

\* String.prototype.startsWith
StartsWith(s, t) ==
    Len(s) >= Len(t) /\ SubSeq(s, 1, Len(t)) = t

\* a || b on strings: the empty string is falsy
OrElse(a, b) == IF a # <<>> THEN a ELSE b

SLASH == <<"/">>
QUOTE == <<"\"">>

\* the marker searched for in the list command's stderr
NO_VOLUMES_MARKER == <<"No volumes mounted">>

\* the list command
LIST_COMMAND == <<"veracrypt --text --list">>

\* values of the two settings
MountDirs == { <<>>, <<"m">>, <<"/">> }
ContainerFiles == { <<"c">>, <<"/", "c">> }
\* getVaultPath: the base path of a FileSystemAdapter (the desktop app, the
\* only host that has child_process)
VaultPaths == { <<"/", "v">> }
\* the folders the settings tab offers (getFolders)
Folders == { <<"m">>, <<"/">> }

DEFAULT_SETTINGS == [mountDirectory |-> <<>>, containerFile |-> <<"c">>]

\* what the tool may print
Stdouts ==
    { <<>>,
      <<"1: ", "/", "x", " ", "/", "v", "/", "m">> }
Stderrs ==
    { <<>>,
      <<"Error: ">> \o NO_VOLUMES_MARKER \o <<".">>,
      <<"Incorrect password">> }

ExitCodes == {0, 1}

\* what exec hands to its callback: error is non-null exactly when the exit
\* code is not 0
Outcomes == [code : ExitCodes, stdout : Stdouts, stderr : Stderrs]

\* what exec hands to the callbacks of the mount and dismount commands, which
\* look at error and stderr only: these commands print nothing on stdout
SilentOutcomes == {o \in Outcomes : o.stdout = <<>>}

\* error.message of a failed exec
ErrorMessage(cmd) == <<"Command failed: ">> \o cmd

----------------------------------------------------------------------------
(* Paths and command lines *)

getVaultPath == vaultPath

\* (mutant) the vault path is left out
getFullMountPathRelative == settings.mountDirectory

getFullMountPath == getVaultPath \o SLASH \o settings.mountDirectory

\* (mutant) an absolute container file is joined to the vault path too
ContainerPathAlwaysJoined(containerFile) ==
    getVaultPath \o SLASH \o containerFile

\* (mutant) the container file is used as it is, relative or not
ContainerPathAsIs(containerFile) == containerFile

\* mountVolume: the container path put in the command
ContainerPath(containerFile) ==
    IF ~StartsWith(containerFile, SLASH)
    THEN getVaultPath \o SLASH \o containerFile
    ELSE containerFile

MountCommand(containerFile, fullMountPath) ==
    <<"veracrypt --mount ">> \o QUOTE \o containerFile \o QUOTE
        \o <<" ">> \o QUOTE \o fullMountPath \o QUOTE

DismountCommand(fullMountPath) ==
    <<"veracrypt --dismount ">> \o QUOTE \o fullMountPath \o QUOTE

----------------------------------------------------------------------------
(* What the host sees: notices, icon changes, commands *)

ProbeErrorNotice(text) == <<"Error checking mount status: ">> \o text
NoDirectoryNotice == <<"Error: No mount directory selected.">>
NotMountedNotice == <<"Error: Volume is not currently mounted.">>
MountFailedNotice(text) == <<"Mount failed: ">> \o text
MountedNotice(containerFile, fullMountPath) ==
    <<"Mounted ">> \o containerFile \o <<" at ">> \o fullMountPath
UnmountFailedNotice(text) == <<"Unmount failed: ">> \o text
UnmountedNotice(fullMountPath) == <<"Unmounted ">> \o fullMountPath

Icon(mounted) == IF mounted THEN "unlock" ELSE "lock"
SetIcon(icon) == <<"setIcon", icon>>
\* 'app:reload' is handed to the host as a command; what the host does with it
\* is not part of the plugin
ReloadCommand == <<"executeCommandById", "app:reload">>

----------------------------------------------------------------------------
(* State *)

NoEvent == [seq |-> 0, owner |-> 0, at |-> "none",
            code |-> 0, stdout |-> <<>>, stderr |-> <<>>]

\* the event exec delivers to the callback of the command owner waits for
\* at at (owner 0 is onload, owner i the i-th toggleMount call)
Event(owner, at, o) ==
    [seq |-> last.seq + 1, owner |-> owner, at |-> at,
     code |-> o.code, stdout |-> o.stdout, stderr |-> o.stderr]

\* what loadData may return: each setting stored or absent
Absent == <<"undefined">>
StoredData ==
    [mountDirectory : MountDirs \cup {Absent},
     containerFile : ContainerFiles \cup {Absent}]

\* Object.assign({}, DEFAULT_SETTINGS, data)
loadSettings(data) ==
    [mountDirectory |-> IF data.mountDirectory = Absent
                        THEN DEFAULT_SETTINGS.mountDirectory
                        ELSE data.mountDirectory,
     containerFile |-> IF data.containerFile = Absent
                       THEN DEFAULT_SETTINGS.containerFile
                       ELSE data.containerFile]

\* A toggleMount call: pc is where it waits, cmd the command it has running,
\* containerFile and fullMountPath the locals of mountVolume / unmountVolume,
\* execs the kinds of the commands it has exec'd so far.  stateAtExec is a
\* history field the program does not have: the value of this.isMounted when
\* the call exec'd its dismount command.

\* call c returns: nothing of it is running, its locals are gone
Return(c) ==
    [c EXCEPT !.pc = "done", !.cmd = <<>>,
              !.containerFile = <<>>, !.fullMountPath = <<>>,
              !.stateAtExec = FALSE]

\* call c execs command, of kind kind, and waits at pc
Exec(c, pc, kind, command) ==
    [c EXCEPT !.pc = pc, !.cmd = command, !.execs = Append(@, kind)]

\* command number n of an owner (0: onload, i: the i-th toggleMount call)
\* has run and produced o; n = 0: none has
NotRun == [n |-> 0, o |-> [code |-> 0, stdout |-> <<>>, stderr |-> <<>>]]

\* the environment nothing is known about: exec hands any outcome to any
\* callback
NoEnvironment == [volume |-> FALSE, ran |-> [i \in 0..MaxCalls |-> NotRun]]

Init ==
    /\ vaultPath \in VaultPaths
    /\ settings = DEFAULT_SETTINGS
    /\ isMounted = FALSE
    /\ ribbonIconEl = "null"
    /\ loadPc = "loadSettings"
    /\ calls = <<>>
    /\ last = NoEvent
    /\ out = <<>>
    /\ env = NoEnvironment

----------------------------------------------------------------------------
(* Operations.  An operation that runs inside a callback is an operator     *)
(* from the state it reads to what it does: the values it stores and the    *)
(* host events (out) it produces.                                           *)

\* updateLockIcon when this.isMounted is mounted: the icon shown afterwards
\* and the host events
updateLockIcon(mounted) ==
    IF ribbonIconEl # "null"
    THEN [el |-> Icon(mounted), out |-> <<SetIcon(Icon(mounted))>>]
    ELSE [el |-> ribbonIconEl, out |-> <<>>]

\* (mutant) the callback looks at stdout only, whatever error is
checkMountStatusStdoutOnly(o) ==
    [mounted |-> Includes(o.stdout, getFullMountPath), out |-> <<>>]

\* (mutant) an inconclusive failure is swallowed: no notice
checkMountStatusSilent(o) ==
    IF o.code # 0
    THEN [mounted |-> FALSE, out |-> <<>>]
    ELSE [mounted |-> Includes(o.stdout, getFullMountPath), out |-> <<>>]

\* the callback of checkMountStatus: the value the promise resolves to and
\* the notices shown
checkMountStatus(o) ==
    IF o.code # 0 /\ Includes(o.stderr, NO_VOLUMES_MARKER)
    THEN [mounted |-> FALSE, out |-> <<>>]
    ELSE IF o.code # 0
    THEN [mounted |-> FALSE,
          out |-> <<ProbeErrorNotice(
                       OrElse(o.stderr, ErrorMessage(LIST_COMMAND)))>>]
    ELSE [mounted |-> Includes(o.stdout, getFullMountPath), out |-> <<>>]

\* (mutant) the return after the no-directory notice is missing
mountVolumeNoReturn(c) ==
    LET fullMountPath == getVaultPath \o SLASH \o settings.mountDirectory
        containerFile == ContainerPath(settings.containerFile)
        command == MountCommand(containerFile, fullMountPath)
    IN [call |-> Exec([c EXCEPT !.containerFile = containerFile,
                                !.fullMountPath = fullMountPath],
                      "mount", "mount", command),
        out |-> IF settings.mountDirectory = <<>>
                THEN <<NoDirectoryNotice>> ELSE <<>>]

\* mountVolume up to its return, run by call c: the call afterwards and the
\* notices shown
mountVolume(c) ==
    IF settings.mountDirectory = <<>>
    THEN [call |-> Return(c), out |-> <<NoDirectoryNotice>>]
    ELSE LET fullMountPath == getVaultPath \o SLASH \o settings.mountDirectory
             containerFile == ContainerPath(settings.containerFile)
             command == MountCommand(containerFile, fullMountPath)
         IN [call |-> Exec([c EXCEPT !.containerFile = containerFile,
                                     !.fullMountPath = fullMountPath],
                           "mount", "mount", command),
             out |-> <<>>]

\* unmountVolume up to its return, run by call c
unmountVolume(c) ==
    [call |-> Exec([c EXCEPT !.fullMountPath = getFullMountPath],
                   "unmountList", "list", LIST_COMMAND),
     out |-> <<>>]

\* (mutant) the dispatch reads the flag cached before the probe
toggleDispatchCached(c, mounted) ==
    IF isMounted THEN unmountVolume(c) ELSE mountVolume(c)

\* toggleMount after its await, this.isMounted being mounted
toggleDispatch(c, mounted) ==
    IF mounted THEN unmountVolume(c) ELSE mountVolume(c)

\* a call that has exec'd nothing yet
BlankCall ==
    [pc |-> "done", cmd |-> <<>>, containerFile |-> <<>>,
     fullMountPath |-> <<>>, execs |-> <<>>, stateAtExec |-> FALSE]

\* (mutant) toggleMount trusts the cached flag and does not probe
NewCallFromCache == toggleDispatch(BlankCall, isMounted).call

\* toggleMount up to its await: the call has exec'd its list command
NewCall == Exec(BlankCall, "probe", "list", LIST_COMMAND)

\* (mutant) the callback ignores the list command's error
unmountListCallbackNoError(c, o) ==
    IF ~Includes(o.stdout, c.fullMountPath)
    THEN [call |-> Return(c), out |-> <<NotMountedNotice>>]
    ELSE [call |-> Exec(c, "dismount", "dismount",
                        DismountCommand(c.fullMountPath)),
          out |-> <<>>]

\* (mutant) the callback resolves the mount path again for the dismount
unmountListCallbackRereads(c, o) ==
    IF o.code # 0 \/ ~Includes(o.stdout, c.fullMountPath)
    THEN [call |-> Return(c), out |-> <<NotMountedNotice>>]
    ELSE [call |-> Exec(c, "dismount", "dismount",
                        DismountCommand(getFullMountPath)),
          out |-> <<>>]

\* the callback of unmountVolume's list command
unmountListCallback(c, o) ==
    IF o.code # 0 \/ ~Includes(o.stdout, c.fullMountPath)
    THEN [call |-> Return(c), out |-> <<NotMountedNotice>>]
    ELSE [call |-> Exec(c, "dismount", "dismount",
                        DismountCommand(c.fullMountPath)),
          out |-> <<>>]

\* the callback of mountVolume's mount command
mountCallback(c, o) ==
    IF o.code # 0
    THEN [call |-> Return(c), mounted |-> isMounted, el |-> ribbonIconEl,
          out |-> <<MountFailedNotice(OrElse(o.stderr, ErrorMessage(c.cmd)))>>]
    ELSE LET icon == updateLockIcon(TRUE)
         IN [call |-> Return(c), mounted |-> TRUE, el |-> icon.el,
             out |-> <<MountedNotice(c.containerFile, c.fullMountPath)>>
                       \o icon.out \o <<ReloadCommand>>]

\* (mutant) a successful dismount does not reload the app
dismountCallbackNoReload(c, o) ==
    IF o.code # 0
    THEN [call |-> Return(c), mounted |-> isMounted, el |-> ribbonIconEl,
          out |-> <<UnmountFailedNotice(OrElse(o.stderr, ErrorMessage(c.cmd)))>>]
    ELSE LET icon == updateLockIcon(FALSE)
         IN [call |-> Return(c), mounted |-> FALSE, el |-> icon.el,
             out |-> <<UnmountedNotice(c.fullMountPath)>> \o icon.out]

\* the callback of unmountVolume's dismount command
dismountCallback(c, o) ==
    IF o.code # 0
    THEN [call |-> Return(c), mounted |-> isMounted, el |-> ribbonIconEl,
          out |-> <<UnmountFailedNotice(OrElse(o.stderr, ErrorMessage(c.cmd)))>>]
    ELSE LET icon == updateLockIcon(FALSE)
         IN [call |-> Return(c), mounted |-> FALSE, el |-> icon.el,
             out |-> <<UnmountedNotice(c.fullMountPath)>>
                       \o icon.out \o <<ReloadCommand>>]

----------------------------------------------------------------------------
(* Actions *)

\* onload: loadSettings has its data, updateMountStatus execs the list command
OnloadSettings(data) ==
    /\ loadPc = "loadSettings"
    /\ settings' = loadSettings(data)
    /\ loadPc' = "probe"
    /\ UNCHANGED <<env, vaultPath, isMounted, ribbonIconEl, calls, last, out>>

\* onload: the list command of updateMountStatus completes, updateLockIcon
\* runs (there is no icon yet), the ribbon icon and the settings tab are added
OnloadProbeDone(o) ==
    /\ loadPc = "probe"
    /\ LET r == checkMountStatus(o)
           icon == updateLockIcon(r.mounted)
       IN /\ isMounted' = r.mounted
          /\ ribbonIconEl' = Icon(r.mounted)
          /\ out' = r.out \o icon.out
    /\ loadPc' = "loaded"
    /\ last' = Event(0, "load", o)
    /\ UNCHANGED <<env, vaultPath, settings, calls>>

\* the ribbon icon is clicked: toggleMount runs up to its await
toggleMount ==
    /\ loadPc = "loaded"
    /\ Len(calls) < MaxCalls
    /\ calls' = Append(calls, NewCall)
    /\ UNCHANGED <<env, vaultPath, settings, isMounted, ribbonIconEl, loadPc, last,
                   out>>

\* the list command of call i's checkMountStatus completes: toggleMount
\* resumes, stores the result and calls mountVolume or unmountVolume
ToggleProbeDone(i, o) ==
    /\ i \in DOMAIN calls
    /\ calls[i].pc = "probe"
    /\ LET r == checkMountStatus(o)
           d == toggleDispatch(calls[i], r.mounted)
       IN /\ isMounted' = r.mounted
          /\ calls' = [calls EXCEPT ![i] = d.call]
          /\ out' = r.out \o d.out
    /\ last' = Event(i, "probe", o)
    /\ UNCHANGED <<env, vaultPath, settings, ribbonIconEl, loadPc>>

\* the list command of call i's unmountVolume completes
UnmountListDone(i, o) ==
    /\ i \in DOMAIN calls
    /\ calls[i].pc = "unmountList"
    /\ LET r == unmountListCallback(calls[i], o)
       IN /\ calls' = [calls EXCEPT ![i] =
                IF r.call.pc = "dismount"
                THEN [r.call EXCEPT !.stateAtExec = isMounted]
                ELSE r.call]
          /\ out' = r.out
    /\ last' = Event(i, "unmountList", o)
    /\ UNCHANGED <<env, vaultPath, settings, isMounted, ribbonIconEl, loadPc>>

\* the mount command of call i completes
MountDone(i, o) ==
    /\ i \in DOMAIN calls
    /\ calls[i].pc = "mount"
    /\ LET r == mountCallback(calls[i], o)
       IN /\ calls' = [calls EXCEPT ![i] = r.call]
          /\ isMounted' = r.mounted
          /\ ribbonIconEl' = r.el
          /\ out' = r.out
    /\ last' = Event(i, "mount", o)
    /\ UNCHANGED <<env, vaultPath, settings, loadPc>>

\* the dismount command of call i completes
DismountDone(i, o) ==
    /\ i \in DOMAIN calls
    /\ calls[i].pc = "dismount"
    /\ LET r == dismountCallback(calls[i], o)
       IN /\ calls' = [calls EXCEPT ![i] = r.call]
          /\ isMounted' = r.mounted
          /\ ribbonIconEl' = r.el
          /\ out' = r.out
    /\ last' = Event(i, "dismount", o)
    /\ UNCHANGED <<env, vaultPath, settings, loadPc>>

\* the settings tab: the container file text is edited
SetContainerFile(value) ==
    /\ loadPc = "loaded"
    /\ value # settings.containerFile
    /\ settings' = [settings EXCEPT !.containerFile = value]
    /\ UNCHANGED <<env, vaultPath, isMounted, ribbonIconEl, loadPc, calls, last,
                   out>>

\* the settings tab: a folder is picked as the mount directory
SetMountDirectory(value) ==
    /\ loadPc = "loaded"
    /\ value # settings.mountDirectory
    /\ settings' = [settings EXCEPT !.mountDirectory = value]
    /\ UNCHANGED <<env, vaultPath, isMounted, ribbonIconEl, loadPc, calls, last,
                   out>>

Next ==
    \/ \E data \in StoredData : OnloadSettings(data)
    \/ \E o \in Outcomes : OnloadProbeDone(o)
    \/ toggleMount
    \/ \E i \in 1..MaxCalls, o \in Outcomes : ToggleProbeDone(i, o)
    \/ \E i \in 1..MaxCalls, o \in Outcomes : UnmountListDone(i, o)
    \/ \E i \in 1..MaxCalls, o \in SilentOutcomes : MountDone(i, o)
    \/ \E i \in 1..MaxCalls, o \in SilentOutcomes : DismountDone(i, o)
    \/ \E value \in ContainerFiles : SetContainerFile(value)
    \/ \E value \in Folders : SetMountDirectory(value)

Spec == Init /\ [][Next]_vars

----------------------------------------------------------------------------
(* Vocabulary of the properties *)

\* this step is the callback of a completed command
IsCallback == last'.seq = last.seq + 1

\* this step is the callback of the command call i (0: onload) waited for at at
CallbackOf(i, at) == IsCallback /\ last'.owner = i /\ last'.at = at

\* this step is the completion of a probe (checkMountStatus's list command)
IsProbeCallback == IsCallback /\ last'.at \in {"load", "probe"}

\* the owners that have a command running
InFlight ==
    {i \in DOMAIN calls : calls[i].cmd # <<>>}
        \cup (IF loadPc = "probe" THEN {0} ELSE {})

HasMarker(stderr) == Includes(stderr, NO_VOLUMES_MARKER)
IsProbeError(n) == StartsWith(n, <<"Error checking mount status: ">>)
IsSetIcon(n) == StartsWith(n, <<"setIcon">>)
\* the places of the probe-error notices, and of the icon changes, in o
ProbeErrors(o) == {k \in DOMAIN o : IsProbeError(o[k])}
IconsSet(o) == {k \in DOMAIN o : IsSetIcon(o[k])}

\* the mount path a probe completing in this step searches stdout for: the
\* vault path joined with the mount directory setting
ProbedPath == vaultPath \o <<"/">> \o settings.mountDirectory

----------------------------------------------------------------------------
(* Properties *)

\* C1: a toggle call made while an earlier call still has a command running
\* is rejected at once and execs no command of its own.
C1_SecondCallRejected ==
    [][\A i \in DOMAIN calls' \ DOMAIN calls :
          InFlight # {} => /\ calls'[i].pc = "done"
                           /\ calls'[i].execs = <<>>
                           /\ calls'[i].cmd = <<>>]_vars

\* C2: at most one external command started by the instance is running.
C2_AtMostOneInFlight == Cardinality(InFlight) <= 1

\* C3: a toggle call execs exactly one list command before it decides between
\* mountVolume and unmountVolume: a new call waits for its probe and has
\* decided nothing, it decides in the callback of that probe, and until then
\* it execs nothing else.
C3_OneProbeBeforeDeciding ==
    [][\A i \in DOMAIN calls' :
          /\ i \notin DOMAIN calls =>
                /\ calls'[i].pc = "probe"
                /\ calls'[i].execs = <<"list">>
                /\ calls'[i].cmd = LIST_COMMAND
          /\ (i \in DOMAIN calls /\ calls[i].pc = "probe") =>
                IF calls'[i].pc = "probe"
                THEN calls'[i] = calls[i]
                ELSE /\ CallbackOf(i, "probe")
                     /\ calls[i].execs = <<"list">>]_vars

\* a toggle call has decided, in the callback of its one probe
C3_Witness ==
    /\ last.at = "probe"
    /\ last.owner \in DOMAIN calls
    /\ calls[last.owner].pc \in {"mount", "unmountList"}
    /\ Len(calls[last.owner].execs) = 2

\* C4: unmountVolume execs the dismount command only in the callback of its
\* own list command, and only if that command exited 0 with the resolved
\* mount path in its stdout; otherwise the call ends with the not-mounted
\* notice, execs nothing and leaves this.isMounted and the icon alone.
C4_DismountOnlyAfterOwnProbe ==
    [][\A i \in DOMAIN calls :
          /\ calls'[i].execs # calls[i].execs
                /\ calls'[i].execs[Len(calls'[i].execs)] = "dismount"
             => /\ CallbackOf(i, "unmountList")
                /\ last'.code = 0
                /\ Includes(last'.stdout, calls[i].fullMountPath)
                /\ calls'[i].cmd = DismountCommand(calls[i].fullMountPath)
          /\ CallbackOf(i, "unmountList")
                /\ (last'.code # 0
                      \/ ~Includes(last'.stdout, calls[i].fullMountPath))
             => /\ out' = <<NotMountedNotice>>
                /\ calls'[i].pc = "done"
                /\ calls'[i].cmd = <<>>
                /\ calls'[i].execs = calls[i].execs
                /\ isMounted' = isMounted
                /\ ribbonIconEl' = ribbonIconEl]_vars

\* an unmountVolume whose list command exited 0 without the path has ended,
\* with no dismount and the cached state still mounted
C4_Witness ==
    /\ last.at = "unmountList"
    /\ last.code = 0
    /\ last.stdout = <<>>
    /\ calls[last.owner].pc = "done"
    /\ calls[last.owner].execs = <<"list", "list">>
    /\ out = <<NotMountedNotice>>
    /\ isMounted

\* C5 as stated: a probe whose stderr has the marker reports not mounted,
\* whatever the exit code (0 included) and whatever stdout holds.
C5_MarkerAnyExitCode ==
    (last.at \in {"load", "probe"} /\ HasMarker(last.stderr)) => ~isMounted

\* C5, amended: a probe whose stderr has the marker reports not mounted when
\* the list command exited non-zero, whatever stdout holds; when it exited 0
\* the marker is not consulted and the probe reports mounted exactly when
\* stdout includes the mount path.
C5_MarkerNonZeroExit ==
    [][(IsProbeCallback /\ HasMarker(last'.stderr)) =>
          isMounted' = (last'.code = 0 /\ Includes(last'.stdout, ProbedPath))]_vars

\* a probe exited non-zero with the marker while stdout held the mount path,
\* and reported not mounted
C5_Witness ==
    /\ last.at = "probe"
    /\ last.code # 0
    /\ HasMarker(last.stderr)
    /\ Includes(last.stdout, ProbedPath)
    /\ ~isMounted

\* C6: a probe whose list command exited non-zero reports not mounted; it
\* shows one probe-error notice (stderr, or the error's message when stderr
\* is empty) when stderr lacks the marker and none when stderr has it.
C6_NonZeroExitProbe ==
    (last.at \in {"load", "probe"} /\ last.code # 0) =>
        /\ ~isMounted
        /\ IF HasMarker(last.stderr)
           THEN ProbeErrors(out) = {}
           ELSE /\ ProbeErrors(out) = {1}
                /\ out[1] = <<"Error checking mount status: ">>
                               \o (IF last.stderr # <<>> THEN last.stderr
                                   ELSE ErrorMessage(LIST_COMMAND))

\* a probe exited non-zero with an empty stderr while stdout held the mount
\* path: not mounted, and the notice carries the error's message
C6_Witness ==
    /\ last.at = "probe"
    /\ last.code # 0
    /\ last.stderr = <<>>
    /\ Includes(last.stdout, ProbedPath)
    /\ ~isMounted
    /\ out # <<>>
    /\ out[1] = ProbeErrorNotice(ErrorMessage(LIST_COMMAND))

\* C7: a probe whose list command exited 0 reports mounted exactly when stdout
\* includes the vault path joined with the mount directory, and shows no
\* probe-error notice.
C7_ZeroExitProbe ==
    [][(IsProbeCallback /\ last'.code = 0) =>
          /\ isMounted' = Includes(last'.stdout, ProbedPath)
          /\ ProbeErrors(out') = {}]_vars

\* a probe exited 0 with the mount path in stdout and reported mounted
C7_Witness ==
    /\ last.at = "probe"
    /\ last.code = 0
    /\ Includes(last.stdout, ProbedPath)
    /\ isMounted
    /\ calls[last.owner].pc = "unmountList"

\* C8: mountVolume entered with an empty mount directory (the call's probe
\* reported not mounted) shows the no-directory notice and returns: it execs
\* nothing, sets no icon, and this.isMounted keeps the value it had when
\* mountVolume was entered, the probe's result.
C8_NoMountDirectory ==
    [][\A i \in DOMAIN calls :
          (/\ CallbackOf(i, "probe")
           /\ ~(last'.code = 0 /\ Includes(last'.stdout, ProbedPath))
           /\ settings.mountDirectory = <<>>)
          => /\ calls'[i].pc = "done"
             /\ calls'[i].cmd = <<>>
             /\ calls'[i].execs = calls[i].execs
             /\ out' # <<>>
             /\ out'[Len(out')] = NoDirectoryNotice
             /\ IconsSet(out') = {}
             /\ ribbonIconEl' = ribbonIconEl
             /\ isMounted' = FALSE]_vars

\* a call's mountVolume has returned on the empty mount directory
C8_Witness ==
    /\ last.at = "probe"
    /\ settings.mountDirectory = <<>>
    /\ calls[last.owner].pc = "done"
    /\ calls[last.owner].execs = <<"list">>
    /\ out = <<NoDirectoryNotice>>
    /\ ~isMounted

\* C9 as stated: when a mount command exits non-zero the state is Unmounted
\* afterwards, no icon is set, nothing but the failure notice is emitted, and
\* the notice carries stderr, or the error's message when stderr is empty.
C9_MountFailureLeavesUnmounted ==
    [][\A i \in DOMAIN calls :
          (CallbackOf(i, "mount") /\ last'.code # 0)
          => /\ ~isMounted'
             /\ ribbonIconEl' = ribbonIconEl
             /\ out' = << <<"Mount failed: ">>
                            \o (IF last'.stderr # <<>> THEN last'.stderr
                                ELSE ErrorMessage(calls[i].cmd)) >>]_vars

\* what does hold of a failed mount: this.isMounted is left as it was
C9_MountFailureChangesNothing ==
    [][\A i \in DOMAIN calls :
          (CallbackOf(i, "mount") /\ last'.code # 0)
          => /\ isMounted' = isMounted
             /\ ribbonIconEl' = ribbonIconEl
             /\ out' = << <<"Mount failed: ">>
                            \o (IF last'.stderr # <<>> THEN last'.stderr
                                ELSE ErrorMessage(calls[i].cmd)) >>]_vars

\* C10: mountVolume puts into its command, quoted, the container file (as it
\* is if it starts with "/", else joined to the vault path) and the vault
\* path joined with the mount directory; when that command exits 0 the state
\* becomes mounted, the icon is set once, to unlock, and the success notice
\* names the same two paths, before the reload.
C10_MountSuccess ==
    [][\A i \in DOMAIN calls :
          /\ (calls[i].pc = "probe" /\ calls'[i].pc = "mount") =>
                LET containerPath ==
                        IF StartsWith(settings.containerFile, <<"/">>)
                        THEN settings.containerFile
                        ELSE vaultPath \o <<"/">> \o settings.containerFile
                    mountPath == vaultPath \o <<"/">> \o settings.mountDirectory
                IN /\ calls'[i].containerFile = containerPath
                   /\ calls'[i].fullMountPath = mountPath
                   /\ calls'[i].cmd =
                         <<"veracrypt --mount ", "\"">> \o containerPath
                            \o <<"\"", " ", "\"">> \o mountPath \o <<"\"">>
          /\ (calls[i].pc = "mount" /\ calls'[i].pc = "mount") =>
                calls'[i] = calls[i]
          /\ (CallbackOf(i, "mount") /\ last'.code = 0) =>
                /\ isMounted'
                /\ ribbonIconEl' = "unlock"
                /\ Cardinality(IconsSet(out')) = 1
                /\ out' = << <<"Mounted ">> \o calls[i].containerFile
                               \o <<" at ">> \o calls[i].fullMountPath,
                             <<"setIcon", "unlock">>,
                             ReloadCommand >>]_vars

\* container file "c" and mount directory "m" under the vault path "/v": the
\* mount succeeded and the notice names "/v/c" and "/v/m"
C10_Witness ==
    /\ last.at = "mount"
    /\ last.code = 0
    /\ isMounted
    /\ ribbonIconEl = "unlock"
    /\ out = << <<"Mounted ", "/", "v", "/", "c", " at ", "/", "v", "/", "m">>,
                SetIcon("unlock"), ReloadCommand >>

\* C11 as stated: when a dismount command exits 0 the state becomes
\* Unmounted and the icon is set to lock; when it exits non-zero the state is
\* what it was when the dismount command was exec'd, no icon is set, and the
\* unmount-failed notice carries the command's stderr.
C11_DismountOutcome ==
    [][\A i \in DOMAIN calls :
          /\ (CallbackOf(i, "dismount") /\ last'.code = 0) =>
                /\ ~isMounted'
                /\ ribbonIconEl' = "lock"
                /\ IconsSet(out') # {}
          /\ (CallbackOf(i, "dismount") /\ last'.code # 0) =>
                /\ isMounted' = calls[i].stateAtExec
                /\ ribbonIconEl' = ribbonIconEl
                /\ IconsSet(out') = {}
                /\ Len(out') = 1
                /\ StartsWith(out'[1], <<"Unmount failed: ">>)
                /\ Includes(out'[1], last'.stderr)]_vars

\* what does hold of a failed dismount: its callback leaves this.isMounted as
\* it finds it
C11_DismountFailureWritesNothing ==
    [][\A i \in DOMAIN calls :
          (CallbackOf(i, "dismount") /\ last'.code # 0) =>
              /\ isMounted' = isMounted
              /\ ribbonIconEl' = ribbonIconEl
              /\ out' = << <<"Unmount failed: ">>
                             \o (IF last'.stderr # <<>> THEN last'.stderr
                                 ELSE ErrorMessage(calls[i].cmd)) >>]_vars

\* a notice of a failed attempt
IsFailureNotice(n) ==
    \/ IsProbeError(n)
    \/ n \in {NoDirectoryNotice, NotMountedNotice}
    \/ StartsWith(n, <<"Mount failed: ">>)
    \/ StartsWith(n, <<"Unmount failed: ">>)

\* C12 as stated: the icon shows the probed state once onload's probe is done;
\* afterwards every change of this.isMounted comes with exactly one setIcon,
\* of the new state, and a callback that reports a failure sets no icon.
C12_PublishedPerTransition ==
    [][/\ CallbackOf(0, "load") => ribbonIconEl' = Icon(isMounted')
       /\ (loadPc = "loaded" /\ isMounted' # isMounted) =>
             /\ Cardinality(IconsSet(out')) = 1
             /\ \E k \in DOMAIN out' : out'[k] = <<"setIcon", Icon(isMounted')>>
       /\ (IsCallback /\ \E k \in DOMAIN out' : IsFailureNotice(out'[k])) =>
             IconsSet(out') = {}]_vars

\* C13 as stated: this.isMounted changes value only in the callback of a probe
\* that did not end in the inconclusive error, or of a mount / dismount
\* command that exited 0.
C13_ChangesOnlyOnSuccess ==
    [][isMounted' # isMounted =>
          \/ /\ IsProbeCallback
             /\ ~(last'.code # 0 /\ ~HasMarker(last'.stderr))
          \/ /\ IsCallback
             /\ last'.at \in {"mount", "dismount"}
             /\ last'.code = 0]_vars

\* the state-changing commands among the kinds execs
StateChanging(execs) == {k \in DOMAIN execs : execs[k] \in {"mount", "dismount"}}

\* C14: in the callback of its probe a toggle call enters unmountVolume when
\* that probe reported mounted and mountVolume when it did not, whatever
\* this.isMounted was before; it never does both or neither; a call execs at
\* most one mount or dismount command, and a call that has returned execs
\* nothing more.
C14_DispatchOnFreshProbe ==
    [][\A i \in DOMAIN calls :
          /\ CallbackOf(i, "probe") =>
                IF last'.code = 0 /\ Includes(last'.stdout, ProbedPath)
                THEN /\ calls'[i].pc = "unmountList"
                     /\ calls'[i].execs = <<"list", "list">>
                     /\ \A k \in DOMAIN out' : out'[k] # NoDirectoryNotice
                ELSE \/ /\ calls'[i].pc = "mount"
                        /\ calls'[i].execs = <<"list", "mount">>
                     \/ /\ calls'[i].pc = "done"
                        /\ calls'[i].execs = <<"list">>
                        /\ out' # <<>>
                        /\ out'[Len(out')] = NoDirectoryNotice
          /\ Cardinality(StateChanging(calls'[i].execs)) <= 1
          /\ calls[i].pc = "done" => calls'[i] = calls[i]]_vars

\* a call whose probe reported mounted has entered unmountVolume while the
\* icon still shows the state cached before, lock
C14_Witness ==
    /\ last.at = "probe"
    /\ last.code = 0
    /\ isMounted
    /\ ribbonIconEl = "lock"
    /\ calls[last.owner].pc = "unmountList"

\* resolve(base, p) of the path resolver, the base being the vault path
Resolve(p) ==
    IF StartsWith(p, <<"/">>) THEN p ELSE vaultPath \o <<"/">> \o p

\* call i enters mountVolume, and execs the mount command, in this step
EntersMount(i) == calls[i].pc = "probe" /\ calls'[i].pc = "mount"

\* call i enters unmountVolume in this step
EntersUnmount(i) == calls[i].pc = "probe" /\ calls'[i].pc = "unmountList"

\* C15 as stated: the container path and the mount path a call works with
\* are resolve(base, setting): the setting unchanged when it is absolute,
\* joined to the base otherwise; resolving the result again changes nothing.
C15_ResolveBoth ==
    [][\A i \in DOMAIN calls :
          /\ EntersMount(i) =>
                /\ calls'[i].containerFile = Resolve(settings.containerFile)
                /\ calls'[i].fullMountPath = Resolve(settings.mountDirectory)
                /\ Resolve(calls'[i].containerFile) = calls'[i].containerFile
                /\ Resolve(calls'[i].fullMountPath) = calls'[i].fullMountPath
          /\ EntersUnmount(i) =>
                /\ calls'[i].fullMountPath = Resolve(settings.mountDirectory)
                /\ Resolve(calls'[i].fullMountPath) = calls'[i].fullMountPath]_vars

\* C15, amended: both paths are absolute.  The container path is
\* resolve(base, containerFile), and resolving it again, as mountVolume does,
\* changes nothing.  The mount path is the base joined with the mount
\* directory, whether or not the mount directory starts with "/".
C15_ResolveContainerJoinMount ==
    [][\A i \in DOMAIN calls :
          /\ EntersMount(i) =>
                /\ calls'[i].containerFile = Resolve(settings.containerFile)
                /\ StartsWith(calls'[i].containerFile, <<"/">>)
                /\ ContainerPath(calls'[i].containerFile)
                      = calls'[i].containerFile
                /\ calls'[i].fullMountPath
                      = vaultPath \o <<"/">> \o settings.mountDirectory
                /\ StartsWith(calls'[i].fullMountPath, <<"/">>)
          /\ EntersUnmount(i) =>
                /\ calls'[i].fullMountPath
                      = vaultPath \o <<"/">> \o settings.mountDirectory
                /\ StartsWith(calls'[i].fullMountPath, <<"/">>)]_vars

\* a mount is running for the absolute container file "/c", kept as it is,
\* and the absolute mount directory "/", joined to the vault path "/v"
C15_Witness ==
    \E i \in DOMAIN calls :
        /\ calls[i].pc = "mount"
        /\ calls[i].containerFile = <<"/", "c">>
        /\ calls[i].fullMountPath = <<"/", "v", "/", "/">>

\* the places of the reload command among the host events o
Reloads(o) == {k \in DOMAIN o : o[k] = ReloadCommand}

\* C16: the callback of a mount or dismount command that exited with 0
\* emits the reload command exactly once, as its last host event, right
\* after the icon of the state it has just stored; every other callback
\* emits none, and a step that is not a callback emits nothing at all.
C16_ReloadOncePerSuccess ==
    [][/\ IsCallback =>
            IF last'.at \in {"mount", "dismount"} /\ last'.code = 0
            THEN /\ Reloads(out') = {Len(out')}
                 /\ Len(out') >= 2
                 /\ out'[Len(out') - 1] = SetIcon(Icon(isMounted'))
                 /\ isMounted' = (last'.at = "mount")
                 /\ ribbonIconEl' = Icon(isMounted')
            ELSE Reloads(out') = {}
       /\ ~IsCallback => out' = out]_vars

\* a dismount command has just exited with 0: the state is unmounted, the
\* lock icon was set, and then the reload command was sent
C16_Witness ==
    /\ last.at = "dismount"
    /\ last.code = 0
    /\ ~isMounted
    /\ Len(out) = 3
    /\ out[2] = SetIcon("lock")
    /\ out[3] = ReloadCommand

\* C17: when the plugin is loaded and no command is running, the icon shown
\* is the icon of the cached state.
C17_IconShowsStateAtRest ==
    (loadPc = "loaded" /\ InFlight = {}) => ribbonIconEl = Icon(isMounted)

\* C19: unmountVolume resolves the mount path once, when it is entered;
\* while its list command runs nothing changes the call, whatever happens to
\* the settings; and the dismount command it then execs names exactly the
\* path its callback has found in the output of the list command.
C19_DismountsThePathItVerified ==
    [][\A i \in DOMAIN calls :
          /\ EntersUnmount(i) => calls'[i].fullMountPath = ProbedPath
          /\ (calls[i].pc = "unmountList" /\ ~CallbackOf(i, "unmountList"))
                => calls'[i] = calls[i]
          /\ (calls[i].pc = "unmountList" /\ calls'[i].pc = "dismount")
                => /\ CallbackOf(i, "unmountList")
                   /\ last'.code = 0
                   /\ Includes(last'.stdout, calls[i].fullMountPath)
                   /\ calls'[i].fullMountPath = calls[i].fullMountPath
                   /\ calls'[i].cmd = <<"veracrypt --dismount ">> \o QUOTE
                                        \o calls[i].fullMountPath \o QUOTE]_vars

\* a dismount command is running for the path the list callback of its call
\* has verified, while the settings now name another mount directory
C19_Witness ==
    \E i \in DOMAIN calls :
        /\ calls[i].pc = "dismount"
        /\ last.owner = i
        /\ last.at = "unmountList"
        /\ Includes(last.stdout, calls[i].fullMountPath)
        /\ calls[i].cmd = DismountCommand(calls[i].fullMountPath)
        /\ calls[i].fullMountPath # ProbedPath

----------------------------------------------------------------------------
(* The plugin on a machine where nothing else touches the volume.  A        *)
(* command exec has started runs at some moment, when it reads or changes   *)
(* the volume, and its callback comes later: the steps of other calls may   *)
(* fall between the two.                                                    *)

\* the command owner i waits for: its kind and its number among the
\* commands of i
Waiting(i) ==
    IF i = 0
    THEN [kind |-> IF loadPc = "probe" THEN "list" ELSE "none", n |-> 1]
    ELSE IF i \in DOMAIN calls /\ calls[i].cmd # <<>>
    THEN [kind |-> calls[i].execs[Len(calls[i].execs)],
          n |-> Len(calls[i].execs)]
    ELSE [kind |-> "none", n |-> 0]

\* what the list command prints when it runs: the mounted volume at the
\* configured mount path, or that there is none
TruthfulList ==
    IF env.volume
    THEN {o \in Outcomes : /\ o.code = 0
                           /\ Includes(o.stdout, getFullMountPath)
                           /\ o.stderr = <<>>}
    ELSE {o \in Outcomes : /\ o.code # 0
                           /\ o.stdout = <<>>
                           /\ Includes(o.stderr, NO_VOLUMES_MARKER)}

\* a command that changes the volume succeeds, or fails and says why
Succeeds == {o \in Outcomes : o.code = 0 /\ o.stdout = <<>> /\ o.stderr = <<>>}
Fails ==
    {o \in Outcomes : /\ o.code # 0
                      /\ o.stdout = <<>>
                      /\ o.stderr # <<>>
                      /\ ~Includes(o.stderr, NO_VOLUMES_MARKER)}

\* the mount command cannot mount a volume that is mounted
TruthfulMount == IF env.volume THEN Fails ELSE Succeeds \cup Fails

\* the dismount command cannot dismount a volume that is not mounted
TruthfulDismount == IF env.volume THEN Succeeds \cup Fails ELSE Fails

\* the volume after a command of kind kind has run with outcome o
VolumeAfter(kind, o) ==
    IF o.code # 0 \/ kind = "list" THEN env.volume ELSE kind = "mount"

\* the command owner i waits for runs
Run(i) ==
    /\ Waiting(i).kind # "none"
    /\ env.ran[i].n # Waiting(i).n
    /\ \E o \in IF Waiting(i).kind = "list" THEN TruthfulList
                ELSE IF Waiting(i).kind = "mount" THEN TruthfulMount
                ELSE TruthfulDismount :
          env' = [volume |-> VolumeAfter(Waiting(i).kind, o),
                  ran |-> [env.ran EXCEPT
                              ![i] = [n |-> Waiting(i).n, o |-> o]]]
    /\ UNCHANGED <<vaultPath, settings, isMounted, ribbonIconEl, loadPc,
                   calls, last, out>>

\* the command owner i waits for has run and produced o
HasRun(i, o) == env.ran[i] = [n |-> Waiting(i).n, o |-> o]

\* the stored settings name the mount directory of the volume
TruthfulOnloadSettings(data) ==
    /\ data.mountDirectory = <<"m">>
    /\ OnloadSettings(data)

TruthfulOnloadProbeDone(o) == HasRun(0, o) /\ OnloadProbeDone(o)
TruthfulToggleProbeDone(i, o) == HasRun(i, o) /\ ToggleProbeDone(i, o)
TruthfulUnmountListDone(i, o) == HasRun(i, o) /\ UnmountListDone(i, o)
TruthfulMountDone(i, o) == HasRun(i, o) /\ MountDone(i, o)
TruthfulDismountDone(i, o) == HasRun(i, o) /\ DismountDone(i, o)

\* the volume may be mounted already when the plugin is loaded
InitTruthful ==
    /\ vaultPath \in VaultPaths
    /\ settings = DEFAULT_SETTINGS
    /\ isMounted = FALSE
    /\ ribbonIconEl = "null"
    /\ loadPc = "loadSettings"
    /\ calls = <<>>
    /\ last = NoEvent
    /\ out = <<>>
    /\ env \in [volume : BOOLEAN, ran : {NoEnvironment.ran}]

NextTruthful ==
    \/ \E data \in StoredData : TruthfulOnloadSettings(data)
    \/ \E i \in 0..MaxCalls : Run(i)
    \/ \E o \in Outcomes : TruthfulOnloadProbeDone(o)
    \/ toggleMount
    \/ \E i \in 1..MaxCalls, o \in Outcomes : TruthfulToggleProbeDone(i, o)
    \/ \E i \in 1..MaxCalls, o \in Outcomes : TruthfulUnmountListDone(i, o)
    \/ \E i \in 1..MaxCalls, o \in Outcomes : TruthfulMountDone(i, o)
    \/ \E i \in 1..MaxCalls, o \in Outcomes : TruthfulDismountDone(i, o)

SpecTruthful == InitTruthful /\ [][NextTruthful]_vars

\* C18: on a machine where only the plugin's own commands change the volume
\* and the list command reports what is mounted when it runs, the cached
\* state is the state of the volume whenever no command is running.
C18_CacheMatchesVolume ==
    (loadPc = "loaded" /\ InFlight = {}) => isMounted = env.volume

====
